---- MODULE Spec2Model ----
(***************************************************************************)
(* Product catalog backend (app.py): an in-memory list of products, a      *)
(* global id counter and an upload directory holding one image file per    *)
(* product.  Strings are sequences of one-character strings so that        *)
(* strip(), rsplit(), lower() and float() are computed, not assumed.       *)
(* Time is a sequence of slots, one for every request that reads the       *)
(* clock; datetime.now() returns the successive instants of the slot.      *)
(***************************************************************************)
EXTENDS Integers, Sequences, FiniteSets, TLC

VARIABLES
    products,            \* the list `products`
    product_id_counter,  \* the global `product_id_counter`
    uploads,             \* the files present in the upload folder
    clock,               \* the time slot of the next request that reads the clock
    response,            \* the response returned last
    storeOps,            \* the file operations the last handler performed
    issued,              \* the ids returned by 201 responses, in call order
    deleted,             \* the ids for which DELETE returned 200
    pc,                  \* where each worker thread is in add_product()
    local                \* the local variables of each worker thread

vars == <<products, product_id_counter, uploads, clock, response, storeOps,
          issued, deleted, pc, local>>

\* the variables of the worker threads
workers == <<pc, local>>

\* ---------------------------------------------------------------- bounds
\* the id counter is not advanced beyond MaxProducts + 1
MaxProducts == 2
\* no request reads the clock after slot MaxClock
MaxClock == 3

\* ---------------------------------------------------------------- strings
RECURSIVE LStrip(_, _)
LStrip(s, chars) ==
    IF s # <<>> /\ Head(s) \in chars THEN LStrip(Tail(s), chars) ELSE s

RECURSIVE RStrip(_, _)
RStrip(s, chars) ==
    IF s # <<>> /\ s[Len(s)] \in chars
    THEN RStrip(SubSeq(s, 1, Len(s) - 1), chars) ELSE s

Whitespace == {" "}

\* str.strip()
strip(s) == RStrip(LStrip(s, Whitespace), Whitespace)

\* str.lower(), on the letters that occur in the file names below
LowerChar(c) ==
    CASE c = "P" -> "p" [] c = "N" -> "n" [] c = "G" -> "g"
      [] c = "J" -> "j" [] c = "I" -> "i" [] c = "F" -> "f"
      [] c = "T" -> "t" [] c = "X" -> "x"
      [] OTHER -> c

lower(s) == [i \in 1..Len(s) |-> LowerChar(s[i])]

\* index of the last "." of s (s contains one)
LastDot(s) == CHOOSE i \in 1..Len(s) :
                  s[i] = "." /\ \A j \in (i+1)..Len(s) : s[j] # "."

\* filename.rsplit('.', 1)[1]
rsplit_ext(s) == SubSeq(s, LastDot(s) + 1, Len(s))

ALLOWED_EXTENSIONS ==
    { <<"p","n","g">>, <<"j","p","g">>, <<"j","p","e","g">>,
      <<"g","i","f">>, <<"w","e","b","p">> }

allowed_file_any_dot(filename) == \E i \in 1..Len(filename) : filename[i] = "."

allowed_file(filename) ==
    /\ \E i \in 1..Len(filename) : filename[i] = "."
    /\ lower(rsplit_ext(filename)) \in ALLOWED_EXTENSIONS

\* werkzeug's secure_filename on names made of letters, digits, "." and "_":
\* leading and trailing "." and "_" are stripped
secure_filename(filename) == RStrip(LStrip(filename, {".", "_"}), {".", "_"})

\* ---------------------------------------------------------------- float()
Digits == {"0","1","2","3","4","5","6","7","8","9"}

DigitVal(c) ==
    CASE c = "0" -> 0 [] c = "1" -> 1 [] c = "2" -> 2 [] c = "3" -> 3
      [] c = "4" -> 4 [] c = "5" -> 5 [] c = "6" -> 6 [] c = "7" -> 7
      [] c = "8" -> 8 [] c = "9" -> 9

RECURSIVE DigitsToInt(_)
DigitsToInt(s) ==
    IF s = <<>> THEN 0
    ELSE 10 * DigitsToInt(SubSeq(s, 1, Len(s) - 1)) + DigitVal(s[Len(s)])

RECURSIVE Normalise(_, _)
Normalise(num, frac) ==
    IF frac > 0 /\ num % 10 = 0 THEN Normalise(num \div 10, frac - 1)
    ELSE [num |-> num, frac |-> frac]

\* float(s) for decimal literals (optional sign, digits, at most one point,
\* surrounding whitespace): <<v>> for the value num / 10^frac, <<>> for
\* ValueError.  Exponents, "inf" and "nan" are not among the inputs.
float(s) ==
    LET t      == strip(s)
        signed == t # <<>> /\ Head(t) \in {"-", "+"}
        body   == IF signed THEN Tail(t) ELSE t
        digs   == SelectSeq(body, LAMBDA c : c \in Digits)
        dots   == SelectSeq(body, LAMBDA c : c = ".")
        valid  == /\ Len(digs) >= 1
                  /\ Len(dots) <= 1
                  /\ Len(digs) + Len(dots) = Len(body)
        frac   == IF Len(dots) = 1 THEN Len(body) - LastDot(body) ELSE 0
        mag    == Normalise(DigitsToInt(digs), frac)
        neg    == signed /\ Head(t) = "-" /\ mag.num # 0
    IN  IF valid THEN << [neg |-> neg, num |-> mag.num, frac |-> mag.frac] >>
        ELSE <<>>

\* ---------------------------------------------------------------- paths
UPLOAD_FOLDER == "uploads"

\* f"{datetime.now().timestamp()}_{filename}"
unique_filename(ts, filename) == [ts |-> ts, name |-> filename]

\* os.path.join(app.config['UPLOAD_FOLDER'], unique_filename), relative to the
\* working directory
image_path(unique) == <<UPLOAD_FOLDER, unique>>

\* f'/uploads/{unique_filename}'
image_url(unique) == <<"/", "uploads", unique>>

\* os.path.join(os.getcwd(), product['image'].lstrip('/')), as a path relative
\* to the working directory
disk_path(url) == LStrip(url, {"/"})

\* ---------------------------------------------------------------- requests
Opt(S) == {<<>>} \cup {<<x>> : x \in S}

\* values of the text fields of a POST / of a PUT
CreateNames  == { <<" ", "m">> }
CreateDescs  == { <<"d", " ">> }
CreatePrices == { <<"9", ".", "5">>, <<"x">> }
UpdateNames  == { <<"n", " ">> }
UpdateDescs  == { <<" ", "e">> }
UpdatePrices == { <<" ", "7">>, <<"1", ".", "x">> }

\* file names of the image part of a POST / of a PUT
CreateFiles == { <<>>, <<"a", ".", "p", "n", "g">>, <<"c", ".", "t", "x", "t">>,
                 <<"g", "i", "f">> }
UpdateFiles == { <<>>, <<"b", ".", "J", "P", "G">>,
                 <<"g", "i", "f", ".", "t", "x", "t">> }

NoForm  == [name |-> <<>>, description |-> <<>>, prix |-> <<>>]
NoFiles == [image |-> <<>>]

CreateForms == [name : Opt(CreateNames), description : Opt(CreateDescs),
                prix : Opt(CreatePrices)]
UpdateForms == [name : Opt(UpdateNames), description : Opt(UpdateDescs),
                prix : Opt(UpdatePrices)]

Ids == 1..MaxProducts

\* request.form.get(key): the value, or None (here <<>>, like '' falsy)
form_get(field) == IF field = <<>> THEN <<>> ELSE field[1]

\* ---------------------------------------------------------------- lookup
\* next((p for p in products if p['id'] == product_id), None), as an index
\* into the list (0 for None)
find_product(list, product_id) ==
    IF \E i \in 1..Len(list) : list[i].id = product_id
    THEN CHOOSE i \in 1..Len(list) :
             /\ list[i].id = product_id
             /\ \A j \in 1..(i-1) : list[j].id # product_id
    ELSE 0

list_remove_none(list, p) == list

\* list.remove(p): the first element equal to p is removed
list_remove(list, p) ==
    LET i == CHOOSE k \in 1..Len(list) :
                 list[k] = p /\ \A j \in 1..(k-1) : list[j] # p
    IN  SubSeq(list, 1, i - 1) \o SubSeq(list, i + 1, Len(list))

Reply(op, id, status, message, body) ==
    [op |-> op, id |-> id, status |-> status, message |-> message, body |-> body]

\* datetime.now(), at its k-th reading by the request being handled
now(k) == [slot |-> clock, reading |-> k]

\* the request is answered without any effect on the program's state
Rejected(op, id, status, message) ==
    /\ response' = Reply(op, id, status, message, <<>>)
    /\ storeOps' = <<>>
    /\ UNCHANGED <<products, product_id_counter, uploads, clock, issued, deleted>>

\* os.path.exists(path)
path_exists_never(path, dir) == FALSE

path_exists(path, dir) == path \in dir

\* os.remove(path) raises when the file system refuses the removal
remove_raises_never(ok) == FALSE

remove_raises(ok) == ~ok

\* product_id_counter += 1
next_counter_stuck(c) == c

next_counter(c) == c + 1

\* ---------------------------------------------------------------- POST
\* add_product(); image.save() succeeds or raises
add_product(form, files) ==
    LET image       == files.image[1]
        name        == form_get(form.name)
        description == form_get(form.description)
        prix        == form_get(form.prix)
        unique      == unique_filename(now(1), secure_filename(image))
        path        == image_path(unique)
        price       == float(prix)
        product     == [id          |-> product_id_counter,
                        name        |-> strip(name),
                        description |-> strip(description),
                        prix        |-> price[1],
                        image       |-> image_url(unique),
                        createdAt   |-> now(2),
                        updatedAt   |-> <<>>]
    IN
    /\ product_id_counter <= MaxProducts
    /\ clock <= MaxClock
    /\ IF files.image = <<>>
       THEN Rejected("create", 0, 400, "Image is required")
       ELSE IF image = <<>>
       THEN Rejected("create", 0, 400, "No image selected")
       ELSE IF ~allowed_file(image)
       THEN Rejected("create", 0, 400,
                     "Only image files (png, jpg, jpeg, gif, webp) are allowed")
       ELSE IF name = <<>> \/ description = <<>> \/ prix = <<>>
       THEN Rejected("create", 0, 400, "Name, description, and prix are required")
       ELSE
         /\ clock' = clock + 1
         /\ \/ \* image.save() raises: except Exception
               /\ response' = Reply("create", 0, 500, "Error adding product", <<>>)
               /\ storeOps' = << [op |-> "save", path |-> path, ok |-> FALSE] >>
               /\ UNCHANGED <<products, product_id_counter, uploads, issued,
                              deleted>>
            \/ \* image.save() succeeds
               /\ storeOps' = << [op |-> "save", path |-> path, ok |-> TRUE] >>
               /\ uploads' = uploads \cup {path}
               /\ IF price = <<>>
                  THEN \* float(prix) raises: except ValueError
                       /\ response' = Reply("create", 0, 400,
                                            "Invalid price format", <<>>)
                       /\ UNCHANGED <<products, product_id_counter, issued,
                                      deleted>>
                  ELSE /\ response' = Reply("create", 0, 201,
                                            "Product added successfully",
                                            << product >>)
                       /\ products' = Append(products, product)
                       /\ product_id_counter' = next_counter(product_id_counter)
                       /\ issued' = Append(issued, product.id)
                       /\ UNCHANGED deleted

\* ---------------------------------------------------------------- GET
\* get_products()
get_products ==
    /\ response' = Reply("list", 0, 200, "", products)
    /\ storeOps' = <<>>
    /\ UNCHANGED <<products, product_id_counter, uploads, clock, issued, deleted>>

\* get_product(product_id)
get_product(product_id) ==
    LET i == find_product(products, product_id)
    IN  IF i = 0
           THEN Rejected("get", product_id, 404, "Product not found")
           ELSE /\ response' = Reply("get", product_id, 200, "", << products[i] >>)
                /\ storeOps' = <<>>
                /\ UNCHANGED <<products, product_id_counter, uploads, clock,
                               issued, deleted>>

\* ---------------------------------------------------------------- DELETE
\* delete_product(product_id); os.remove() succeeds or raises
delete_product(product_id) ==
    LET i    == find_product(products, product_id)
        path == disk_path(products[i].image)
    IN  IF i = 0
           THEN Rejected("delete", product_id, 404, "Product not found")
           ELSE \E removeOk \in IF path_exists(path, uploads) THEN BOOLEAN
                                ELSE {TRUE} :
             IF path_exists(path, uploads) /\ remove_raises(removeOk)
             THEN \* os.remove() raises: except Exception
                  /\ response' = Reply("delete", product_id, 500,
                                       "Error deleting product", <<>>)
                  /\ storeOps' = << [op |-> "remove", path |-> path,
                                     ok |-> FALSE] >>
                  /\ UNCHANGED <<products, product_id_counter, uploads, clock,
                                 issued, deleted>>
             ELSE /\ response' = Reply("delete", product_id, 200,
                                       "Product deleted successfully", <<>>)
                  /\ storeOps' = IF path_exists(path, uploads)
                                 THEN << [op |-> "remove", path |-> path,
                                          ok |-> removeOk] >>
                                 ELSE <<>>
                  /\ uploads' = IF path_exists(path, uploads) /\ removeOk
                                THEN uploads \ {path} ELSE uploads
                  /\ products' = list_remove(products, products[i])
                  /\ deleted' = deleted \cup {product_id}
                  /\ UNCHANGED <<product_id_counter, clock, issued>>

\* ---------------------------------------------------------------- PUT
\* if 'name' in request.form: product['name'] = request.form['name'].strip()
update_name(p, form) ==
    IF form.name # <<>> THEN [p EXCEPT !.name = strip(form.name[1])] ELSE p

update_description_get(p, form) ==
    [p EXCEPT !.description = strip(form_get(form.description))]

\* if 'description' in request.form: product['description'] = ...strip()
update_description(p, form) ==
    IF form.description # <<>>
    THEN [p EXCEPT !.description = strip(form.description[1])] ELSE p

\* update_product(product_id); os.remove() and image.save() succeed or raise
update_product(product_id, form, files) ==
    LET i         == find_product(products, product_id)
        texts     == update_description(update_name(products[i], form), form)
        price     == float(form.prix[1])
        priced    == IF form.prix # <<>> THEN [texts EXCEPT !.prix = price[1]]
                     ELSE texts
        new_image == /\ files.image # <<>>
                     /\ files.image[1] # <<>>
                     /\ allowed_file(files.image[1])
        old_path  == disk_path(priced.image)
        removing  == path_exists(old_path, uploads)
        unique    == unique_filename(now(1), secure_filename(files.image[1]))
        path      == image_path(unique)
        imaged    == [priced EXCEPT !.image = image_url(unique)]
    IN
    /\ clock <= MaxClock
    /\ IF i = 0
       THEN Rejected("update", product_id, 404, "Product not found")
       ELSE IF form.prix # <<>> /\ price = <<>>
       THEN \* float() raises after name and description were assigned
            /\ response' = Reply("update", product_id, 400,
                                 "Invalid price format", <<>>)
            /\ products' = [products EXCEPT ![i] = texts]
            /\ storeOps' = <<>>
            /\ UNCHANGED <<product_id_counter, uploads, clock, issued, deleted>>
       ELSE IF ~new_image
       THEN /\ products' = [products EXCEPT
                               ![i] = [priced EXCEPT !.updatedAt = << now(1) >>]]
            /\ response' = Reply("update", product_id, 200,
                                 "Product updated successfully",
                                 << products'[i] >>)
            /\ storeOps' = <<>>
            /\ clock' = clock + 1
            /\ UNCHANGED <<product_id_counter, uploads, issued, deleted>>
       ELSE \E removeOk \in IF removing THEN BOOLEAN ELSE {TRUE} :
         LET removed  == IF removing /\ removeOk THEN uploads \ {old_path}
                         ELSE uploads
             removeOp == IF removing
                         THEN << [op |-> "remove", path |-> old_path,
                                  ok |-> removeOk] >>
                         ELSE <<>>
         IN
         IF removing /\ remove_raises(removeOk)
         THEN \* os.remove() raises: except Exception
              /\ response' = Reply("update", product_id, 500,
                                   "Error updating product", <<>>)
              /\ products' = [products EXCEPT ![i] = priced]
              /\ storeOps' = removeOp
              /\ UNCHANGED <<product_id_counter, uploads, clock, issued, deleted>>
         ELSE
           \/ \* image.save() raises after the old file was removed
              /\ response' = Reply("update", product_id, 500,
                                   "Error updating product", <<>>)
              /\ products' = [products EXCEPT ![i] = priced]
              /\ storeOps' = removeOp \o
                             << [op |-> "save", path |-> path, ok |-> FALSE] >>
              /\ uploads' = removed
              /\ clock' = clock + 1
              /\ UNCHANGED <<product_id_counter, issued, deleted>>
           \/ \* image.save() succeeds
              /\ products' = [products EXCEPT
                                 ![i] = [imaged EXCEPT
                                            !.updatedAt = << now(2) >>]]
              /\ response' = Reply("update", product_id, 200,
                                   "Product updated successfully",
                                   << products'[i] >>)
              /\ storeOps' = removeOp \o
                             << [op |-> "save", path |-> path, ok |-> TRUE] >>
              /\ uploads' = removed \cup {path}
              /\ clock' = clock + 1
              /\ UNCHANGED <<product_id_counter, issued, deleted>>

\* ---------------------------------------------------------------- system
\* the worker threads of the development server (threaded by default)
Threads == {"t1", "t2"}

NoLocals == [form |-> NoForm, files |-> NoFiles, path |-> <<>>,
             product |-> <<>>, counter |-> <<>>]

Init ==
    /\ products = <<>>
    /\ product_id_counter = 1
    /\ uploads = {}
    /\ clock = 1
    /\ response = Reply("none", 0, 0, "", <<>>)
    /\ storeOps = <<>>
    /\ issued = <<>>
    /\ deleted = {}
    /\ pc = [t \in Threads |-> "idle"]
    /\ local = [t \in Threads |-> NoLocals]

\* requests handled one at a time, each from its arrival to its response
Create ==
    /\ \E form \in CreateForms, image \in Opt(CreateFiles) :
           add_product(form, [image |-> image])
    /\ UNCHANGED workers

List == get_products /\ UNCHANGED workers

Get == (\E id \in Ids : get_product(id)) /\ UNCHANGED workers

Delete == (\E id \in Ids : delete_product(id)) /\ UNCHANGED workers

Update ==
    /\ \E id \in Ids, form \in UpdateForms, image \in Opt(UpdateFiles) :
           update_product(id, form, [image |-> image])
    /\ UNCHANGED workers

Next == Create \/ List \/ Get \/ Delete \/ Update

Spec == Init /\ [][Next]_vars

\* ---------------------------------------------------------------- threads
\* add_product() on a worker thread, one step for every access to the shared
\* list, counter and upload folder; under concurrency every reading of the
\* clock takes a slot of its own.

Answer(t, reply) ==
    /\ response' = reply
    /\ pc' = [pc EXCEPT ![t] = "idle"]
    /\ local' = [local EXCEPT ![t] = NoLocals]

\* lines 41-73: the checks of the request, which touch no shared state
thread_validate(t, form, files) ==
    LET image == files.image[1] IN
    /\ pc[t] = "idle"
    /\ clock <= MaxClock
    /\ UNCHANGED <<products, product_id_counter, uploads, clock, storeOps,
                   issued, deleted>>
    /\ IF files.image = <<>>
       THEN Answer(t, Reply("create", 0, 400, "Image is required", <<>>))
       ELSE IF image = <<>>
       THEN Answer(t, Reply("create", 0, 400, "No image selected", <<>>))
       ELSE IF ~allowed_file(image)
       THEN Answer(t, Reply("create", 0, 400,
                "Only image files (png, jpg, jpeg, gif, webp) are allowed", <<>>))
       ELSE IF \/ form_get(form.name) = <<>>
               \/ form_get(form.description) = <<>>
               \/ form_get(form.prix) = <<>>
       THEN Answer(t, Reply("create", 0, 400,
                "Name, description, and prix are required", <<>>))
       ELSE /\ pc' = [pc EXCEPT ![t] = "save"]
            /\ local' = [local EXCEPT ![t].form = form, ![t].files = files]
            /\ UNCHANGED response

\* lines 76-79: the image is saved under a name made of the time
thread_save(t) ==
    LET unique == unique_filename(now(1), secure_filename(local[t].files.image[1]))
        path   == image_path(unique)
    IN
    /\ pc[t] = "save"
    /\ clock' = clock + 1
    /\ UNCHANGED <<products, product_id_counter, issued, deleted>>
    /\ \/ \* image.save() raises: except Exception
          /\ storeOps' = << [op |-> "save", path |-> path, ok |-> FALSE] >>
          /\ UNCHANGED uploads
          /\ Answer(t, Reply("create", 0, 500, "Error adding product", <<>>))
       \/ \* image.save() succeeds
          /\ storeOps' = << [op |-> "save", path |-> path, ok |-> TRUE] >>
          /\ uploads' = uploads \cup {path}
          /\ pc' = [pc EXCEPT ![t] = "build"]
          /\ local' = [local EXCEPT ![t].path = << unique >>]
          /\ UNCHANGED response

\* lines 82-89: the product is built; its id is the counter as read now
thread_build(t) ==
    LET form    == local[t].form
        price   == float(form_get(form.prix))
        product == [id          |-> product_id_counter,
                    name        |-> strip(form_get(form.name)),
                    description |-> strip(form_get(form.description)),
                    prix        |-> price[1],
                    image       |-> image_url(local[t].path[1]),
                    createdAt   |-> now(1),
                    updatedAt   |-> <<>>]
    IN
    /\ pc[t] = "build"
    /\ UNCHANGED <<products, product_id_counter, uploads, storeOps, issued,
                   deleted>>
    /\ IF price = <<>>
       THEN \* float(prix) raises: except ValueError
            /\ UNCHANGED clock
            /\ Answer(t, Reply("create", 0, 400, "Invalid price format", <<>>))
       ELSE /\ clock' = clock + 1
            /\ pc' = [pc EXCEPT ![t] = "append"]
            /\ local' = [local EXCEPT ![t].product = << product >>]
            /\ UNCHANGED response

list_append_unless_present(list, product) ==
    IF find_product(list, product.id) = 0 THEN Append(list, product) ELSE list

\* products.append(product)
list_append(list, product) == Append(list, product)

\* line 91
thread_append(t) ==
    /\ pc[t] = "append"
    /\ products' = list_append(products, local[t].product[1])
    /\ pc' = [pc EXCEPT ![t] = "load"]
    /\ UNCHANGED <<product_id_counter, uploads, clock, response, storeOps,
                   issued, deleted, local>>

\* line 92, product_id_counter += 1: the counter is read ...
thread_load(t) ==
    /\ pc[t] = "load"
    /\ local' = [local EXCEPT ![t].counter = << product_id_counter >>]
    /\ pc' = [pc EXCEPT ![t] = "store"]
    /\ UNCHANGED <<products, product_id_counter, uploads, clock, response,
                   storeOps, issued, deleted>>

\* ... and the value read, plus one, is written back
thread_store(t) ==
    /\ pc[t] = "store"
    /\ product_id_counter' = next_counter(local[t].counter[1])
    /\ pc' = [pc EXCEPT ![t] = "reply"]
    /\ UNCHANGED <<products, uploads, clock, response, storeOps, issued,
                   deleted, local>>

\* lines 94-98
thread_reply(t) ==
    /\ pc[t] = "reply"
    /\ issued' = Append(issued, local[t].product[1].id)
    /\ Answer(t, Reply("create", 0, 201, "Product added successfully",
                       local[t].product))
    /\ UNCHANGED <<products, product_id_counter, uploads, clock, storeOps,
                   deleted>>

Validate ==
    \E t \in Threads, form \in CreateForms, image \in Opt(CreateFiles) :
        thread_validate(t, form, [image |-> image])

Save == \E t \in Threads : thread_save(t)

Build == \E t \in Threads : thread_build(t)

AppendProduct == \E t \in Threads : thread_append(t)

LoadCounter == \E t \in Threads : thread_load(t)

StoreCounter == \E t \in Threads : thread_store(t)

ReplyCreated == \E t \in Threads : thread_reply(t)

NextConcurrent ==
    \/ Validate \/ Save \/ Build \/ AppendProduct \/ LoadCounter
    \/ StoreCounter \/ ReplyCreated

\* POST requests served by two threads at once
SpecConcurrent == Init /\ [][NextConcurrent]_vars

\* ---------------------------------------------------------------- claims
\* the requests a POST or a PUT can carry
CreateRequests == [form : CreateForms, files : [image : Opt(CreateFiles)]]
UpdateRequests == [form : UpdateForms, files : [image : Opt(UpdateFiles)]]

\* the step handles the POST request r and answers it
HandlesCreate(r) == add_product(r.form, r.files)

\* the step handles the PUT request r for product_id and answers it
HandlesUpdate(product_id, r) == update_product(product_id, r.form, r.files)

\* the step answers a request of the kind op / for the id product_id
Answers(op) == response'.op = op
AnswersFor(op, product_id) == response'.op = op /\ response'.id = product_id

EndsWith(s, t) ==
    Len(s) >= Len(t) /\ SubSeq(s, Len(s) - Len(t) + 1, Len(s)) = t

\* the image part is missing, has an empty file name, or has an extension
\* outside png, jpg, jpeg, gif, webp (compared without regard to case)
BadImage(files) ==
    \/ files.image = <<>>
    \/ files.image[1] = <<>>
    \/ \A e \in ALLOWED_EXTENSIONS : ~EndsWith(lower(files.image[1]), <<".">> \o e)

\* the field is supplied and not empty / and not a number
NonEmpty(field) == field # <<>> /\ field[1] # <<>>
NonNumeric(field) == NonEmpty(field) /\ float(field[1]) = <<>>

\* the requests the claims are about
BadImageCreates == {r \in CreateRequests : BadImage(r.files)}
BadPriceCreates ==
    {r \in CreateRequests : /\ ~BadImage(r.files)
                            /\ NonEmpty(r.form.name)
                            /\ NonEmpty(r.form.description)
                            /\ NonNumeric(r.form.prix)}
BadPriceUpdates == {r \in UpdateRequests : NonNumeric(r.form.prix)}
NewImageUpdates == {r \in UpdateRequests : ~BadImage(r.files)}
NoImageUpdates  == {r \in UpdateRequests : r.files.image = <<>>}

FailedOps(ops) == {k \in DOMAIN ops : ~ops[k].ok}

Removals(ops, path) ==
    {k \in DOMAIN ops : ops[k].op = "remove" /\ ops[k].path = path /\ ops[k].ok}

\* C1: with requests handled one at a time, the ids returned by successful
\* creations start at 1 and strictly increase in call order (so none is issued
\* twice, deletions notwithstanding), the counter moves only with a successful
\* creation, and the products of the list have pairwise distinct ids.
C1_IdsIncreaseAndAreUnique ==
    /\ Len(issued) > 0 => issued[1] = 1
    /\ \A k \in 1..(Len(issued) - 1) : issued[k] < issued[k + 1]
    /\ product_id_counter = Len(issued) + 1
    /\ \A i, j \in 1..Len(products) : i # j => products[i].id # products[j].id

C1_Witness ==
    /\ issued = <<1, 2>>
    /\ 1 \in deleted
    /\ Len(products) = 1 /\ products[1].id = 2
    \* a file no product refers to: a creation failed after saving its image
    /\ \E f \in uploads : f # disk_path(products[1].image)

\* C2: a creation with a valid image, a name and a description but a price
\* that is not a number is answered 400 and leaves the list, the counter and
\* the stored files as they were (stated for the requests during which no
\* file operation fails, where the claim leaves no room for another answer).
C2_InvalidPriceCreateLeavesNoTrace ==
    [][ Answers("create") =>
        \A r \in BadPriceCreates :
          ( FailedOps(storeOps') = {} /\ HandlesCreate(r) )
          => ( /\ response'.status = 400
               /\ products' = products
               /\ product_id_counter' = product_id_counter
               /\ uploads' = uploads ) ]_vars

\* C3: an update of an existing product with a price that is not a number is
\* answered 400 and changes nothing of the product.
C3_InvalidPriceUpdateAppliesNothing ==
    [][ \A id \in Ids : AnswersFor("update", id) =>
        \A r \in BadPriceUpdates :
          ( find_product(products, id) # 0 /\ HandlesUpdate(id, r) )
          => ( /\ response'.status = 400
               /\ products' = products ) ]_vars

\* C4: a creation whose image is missing, unnamed or of a disallowed type is
\* answered 400, leaves the list and the counter as they were and performs no
\* file operation, whatever the text fields are.
C4_BadImageCreateRejected ==
    [][ Answers("create") =>
        \A r \in BadImageCreates :
          HandlesCreate(r)
          => ( /\ response'.status = 400
               /\ products' = products
               /\ product_id_counter' = product_id_counter
               /\ storeOps' = <<>>
               /\ uploads' = uploads ) ]_vars

C4_Witness ==
    /\ response.op = "create"
    /\ response.status = 400
    /\ response.message = "Only image files (png, jpg, jpeg, gif, webp) are allowed"
    /\ Len(products) = 1
    /\ product_id_counter = 2
    /\ Cardinality(uploads) = 1

\* C5 as stated: every update of an existing product that supplies an image
\* with an allowed name replaces the image reference by the newly stored file
\* and removes the old file exactly once; an update without an image leaves
\* the reference and the stored files as they were.
C5_ValidImageAlwaysReplaces ==
    [][ \A id \in Ids : AnswersFor("update", id) =>
        LET i == find_product(products, id) IN
        /\ \A r \in NewImageUpdates :
             ( i # 0 /\ HandlesUpdate(id, r) )
             => LET old == products[i].image
                    new == products'[i].image
                IN  /\ new # old
                    /\ disk_path(new) \in uploads' \ uploads
                    /\ Cardinality(Removals(storeOps', disk_path(old))) = 1
        /\ \A r \in NoImageUpdates :
             ( i # 0 /\ HandlesUpdate(id, r) )
             => /\ products'[i].image = products[i].image
                /\ uploads' = uploads
                /\ storeOps' = <<>> ]_vars

\* C5 as amended: an update answered 200 that supplies an image with an
\* allowed name replaces the image reference by the newly stored file; the old
\* file is removed exactly once when it was still stored and not at all when
\* it was already missing, and is not stored afterwards; an update without an
\* image leaves the reference and the stored files as they were.
C5_SuccessfulUpdateReplacesImage ==
    [][ \A id \in Ids : AnswersFor("update", id) =>
        LET i == find_product(products, id) IN
        /\ \A r \in NewImageUpdates :
             ( i # 0 /\ response'.status = 200 /\ HandlesUpdate(id, r) )
             => LET old == products[i].image
                    new == products'[i].image
                IN  /\ new # old
                    /\ disk_path(new) \in uploads' \ uploads
                    /\ uploads' = (uploads \ {disk_path(old)})
                                      \cup {disk_path(new)}
                    /\ Cardinality(Removals(storeOps', disk_path(old)))
                           = IF disk_path(old) \in uploads THEN 1 ELSE 0
                    /\ FailedOps(storeOps') = {}
        /\ \A r \in NoImageUpdates :
             ( i # 0 /\ HandlesUpdate(id, r) )
             => /\ products'[i].image = products[i].image
                /\ uploads' = uploads
                /\ storeOps' = <<>> ]_vars

C5_Witness ==
    /\ response.op = "update"
    /\ response.status = 200
    /\ Len(storeOps) = 2
    /\ storeOps[1].op = "remove" /\ storeOps[1].ok
    /\ storeOps[2].op = "save" /\ storeOps[2].ok
    /\ disk_path(response.body[1].image) = storeOps[2].path
    /\ storeOps[1].path \notin uploads

\* C6: the image reference of every product of the list names a stored file.
C6_ImageAlwaysResolvable ==
    \A i \in 1..Len(products) : disk_path(products[i].image) \in uploads

\* C7 as stated: when the removal of the image file of an existing product
\* fails during a deletion, the product is removed from the list all the same
\* and the deletion is answered 200.
C7_DeleteSwallowsStoreFailure ==
    [][ \A id \in Ids :
          ( /\ find_product(products, id) # 0
            /\ FailedOps(storeOps') # {}
            /\ delete_product(id) )
          => ( /\ response'.status = 200
               /\ find_product(products', id) = 0 ) ]_vars

\* C7 as amended: a deletion of an existing product whose image file cannot be
\* removed is answered 500 and leaves the list and the stored files as they
\* were; otherwise (the file is removed, or was already missing) the product
\* is removed from the list and the deletion is answered 200.
C7_DeleteFailsWithStore ==
    [][ \A id \in Ids :
          LET i == find_product(products, id) IN
          ( i # 0 /\ delete_product(id) )
          => IF FailedOps(storeOps') # {}
             THEN /\ response'.status = 500
                  /\ products' = products
                  /\ uploads' = uploads
             ELSE /\ response'.status = 200
                  /\ Len(products') = Len(products) - 1
                  /\ find_product(products', id) = 0
                  /\ disk_path(products[i].image) \notin uploads' ]_vars

C7_Witness ==
    /\ response.op = "delete"
    /\ response.status = 500
    /\ Len(storeOps) = 1 /\ storeOps[1].op = "remove" /\ ~storeOps[1].ok
    /\ find_product(products, response.id) # 0
    /\ storeOps[1].path \in uploads

\* C8: once a deletion of an id was answered 200, no product of the list has
\* that id again and every later read, update and deletion of it is answered
\* 404, whatever requests are handled in between.
C8_DeletedStaysNotFound ==
    [][ \A id \in deleted :
          /\ find_product(products', id) = 0
          /\ ( \/ get_product(id)
               \/ delete_product(id)
               \/ \E r \in UpdateRequests : HandlesUpdate(id, r) )
             => response'.status = 404 ]_vars

C8_Witness ==
    /\ response.op \in {"get", "update", "delete"}
    /\ response.id \in deleted
    /\ response.status = 404
    /\ Len(issued) = 2 /\ Len(products) = 1
    /\ products[1].createdAt.slot > 1

\* C9: an update answered 200 changes, of the product it names, only the
\* supplied fields and updatedAt; its id and createdAt, the other products, the
\* length and order of the list and the counter stay as they were.
C9_UpdateFrame ==
    [][ \A id \in Ids : ( AnswersFor("update", id) /\ response'.status = 200 ) =>
        \A r \in UpdateRequests :
          HandlesUpdate(id, r)
          => LET i   == find_product(products, id)
                 old == products[i]
                 new == products'[i]
             IN  /\ i # 0
                 /\ Len(products') = Len(products)
                 /\ \A j \in 1..Len(products) :
                        j # i => products'[j] = products[j]
                 /\ new.id = old.id
                 /\ new.createdAt = old.createdAt
                 /\ r.form.name = <<>> => new.name = old.name
                 /\ r.form.description = <<>> => new.description = old.description
                 /\ r.form.prix = <<>> => new.prix = old.prix
                 /\ r.files.image = <<>> => new.image = old.image
                 /\ product_id_counter' = product_id_counter ]_vars

C9_Witness ==
    /\ response.op = "update"
    /\ response.status = 200
    /\ Len(products) = 2
    /\ products[1].name # products[2].name
    /\ products[1].description = products[2].description
    /\ products[1].updatedAt # products[2].updatedAt

\* C10: nothing orders the reading of the counter by one creation before its
\* increment by another: two creations that both built their product from the
\* same value of the counter both append it, so that the list holds two
\* products with one id, and once both have written their increment the
\* counter is ahead of that id by 2 at most.
C10_RacingCreatesShareAnId ==
    \A t, u \in Threads :
        ( /\ t # u
          /\ pc[t] \in {"load", "store", "reply"}
          /\ pc[u] \in {"load", "store", "reply"}
          /\ local[t].product[1].id = local[u].product[1].id )
        => /\ Cardinality({i \in 1..Len(products) :
                              products[i].id = local[t].product[1].id}) >= 2
           /\ ( pc[t] = "reply" /\ pc[u] = "reply" )
              => product_id_counter \in { local[t].product[1].id + 1,
                                          local[t].product[1].id + 2 }

C10_Witness ==
    /\ pc["t1"] = "reply" /\ pc["t2"] = "reply"
    /\ Len(products) = 2
    /\ products[1].id = 1 /\ products[2].id = 1
    /\ product_id_counter = 3

====
